---- MODULE Spec2Model ----
(***************************************************************************)
(* The incremental harvester of src/fetch_new_questions.py: the dataset    *)
(* load and cursor (lines 21-41), the sweep loop with its document cache,  *)
(* 404-streak termination and record extraction (lines 43-160), and the    *)
(* final merge and write of the dataset (lines 162-169).  The files under  *)
(* data/ (the CSV, the cached HTML documents, the images), the remote      *)
(* site and the process's own variables are the state.  A process may be   *)
(* killed between two loop iterations or while to_csv writes the file, and  *)
(* the script may be run again.                                            *)
(***************************************************************************)
EXTENDS Integers, Sequences, FiniteSets, TLC

VARIABLES
    env,             \* the remote site and the faults of this behaviour
    csv,             \* the file CSV_PATH
    html,            \* the files HTML_DIR/q_<id>.html: id -> document
    images,          \* the ids with a file IMAGE_DIR/qid_<id>.jpg
    pc,              \* position of the process in the script
    run,             \* number of the current execution of the script
    df,              \* the loaded DataFrame
    max_qid,
    new_data,
    missing_streak,
    qid,
    html_content,    \* the document the current iteration parsed
    r,               \* the last answer of requests.get for a document
    net_requests,    \* number of document requests sent so far
    skipped,         \* ids skipped by the except branch in this execution
    prev_skipped,    \* the same, of the previous execution
    prev_end         \* how the previous execution ended: "done", "killed"

vars == <<env, csv, html, images, pc, run, df, max_qid, new_data,
          missing_streak, qid, html_content, r, net_requests, skipped,
          prev_skipped, prev_end>>

----------------------------------------------------------------------------
(* Program constants.                                                      *)
MAX_MISSING == 40
BUFFER_ID == 3000

(* Bounds of the model.                                                    *)
MaxRuns == 2        \* executions of the script in one behaviour
Span == 2           \* faults and gaps lie within Span ids of BUFFER_ID
LastFound == 3005   \* the highest id of the remote site that has fully grown
CheckpointInterval == 2   \* the N of a periodic persist every N records
MaxDownProbes == 45 \* ids probed while every request fails, then cut off

Lo == BUFFER_ID - Span
Hi == BUFFER_ID + Span
Window == Lo..Hi

----------------------------------------------------------------------------
(* Documents.  A document is known by what the selectors of the script     *)
(* find in it: "404" is the site's not-found page (div.content > h1 with   *)
(* text 404), "q" a question page, "qimg" a question page with an image    *)
(* link, "qna" a question page whose answer is a word pandas reads as a    *)
(* missing value (NA, null, nan, ...), "err" any other page (a server      *)
(* error page: no h1 404, no question markup), "none" no document.         *)
Documents == {"404", "q", "qimg", "qna", "err"}

NoResponse == [status |-> 0, text |-> "none"]

(* What the remote site answers for an id: the status line and the body.  *)
Response(e, id) ==
    IF id \in e.broken THEN [status |-> 503, text |-> "err"]
    ELSE IF id >= 1 /\ id <= e.last /\ id \notin e.gaps
         THEN [status |-> 200,
               text |-> IF id \in e.imgs THEN "qimg"
                        ELSE IF id \in e.nas THEN "qna" ELSE "q"]
         ELSE [status |-> 200, text |-> "404"]

(* requests.get(url, timeout): the answer, or an exception (status 0).    *)
GetOutcomes(e, id) ==
    IF e.down THEN {NoResponse}
    ELSE {Response(e, id)} \cup (IF id \in e.flaky THEN {NoResponse} ELSE {})

(* requests.get(image_url, timeout): TRUE when it returns.                *)
ImageGetOutcomes(e, id) ==
    {TRUE} \cup (IF id \in e.flaky_img THEN {FALSE} ELSE {})

----------------------------------------------------------------------------
(* The CSV file and pandas.                                                *)
AbsentFile == [kind |-> "absent", rows |-> <<>>]
EmptyFile == [kind |-> "empty", rows |-> <<>>]
CorruptFile == [kind |-> "corrupt", rows |-> <<>>]
Table(rows) == [kind |-> "table", rows |-> rows]

(* pd.read_csv reads an empty field, and a field that is one of its        *)
(* default na_values (quoted or not), as NaN.                              *)
ReadField(v) == IF v \in {"", "NA"} THEN "NaN" ELSE v
(* to_csv writes NaN as the empty field.                                   *)
WriteField(v) == IF v = "NaN" THEN "" ELSE v

ReadRow(row) ==
    [row EXCEPT !.question = ReadField(@), !.answer = ReadField(@)]
WriteRow(row) ==
    [row EXCEPT !.question = WriteField(@), !.answer = WriteField(@)]

ReadCsv(rows) == [i \in DOMAIN rows |-> ReadRow(rows[i])]
ToCsv(frame) == [i \in DOMAIN frame |-> WriteRow(frame[i])]

Ids(frame) == {frame[i].question_id : i \in DOMAIN frame}

Min(a, b) == IF a <= b THEN a ELSE b

SetMax(S) == CHOOSE m \in S : \A x \in S : x <= m

(* The try block of lines 21-32: TRUE when it reaches line 26.             *)
LoadSucceeds(file) == file.kind = "table" /\ file.rows # <<>>

LoadedFrame(file) == IF LoadSucceeds(file) THEN ReadCsv(file.rows) ELSE <<>>

(* A variant of the cursor: the id of the last row for the greatest id.    *)
MaxQidLastRow(file) ==
    IF LoadSucceeds(file) THEN file.rows[Len(file.rows)].question_id ELSE 0

(* A variant of the cursor: the number of rows for the greatest id.        *)
MaxQidByCount(file) == IF LoadSucceeds(file) THEN Len(file.rows) ELSE 0

(* Lines 24-25 and 32: max_qid.                                            *)
MaxQid(file) == IF LoadSucceeds(file) THEN SetMax(Ids(file.rows)) ELSE 0

(* A variant of line 41 that starts at max_qid itself.                     *)
StartQidNoStep(file) == MaxQid(file)

(* Line 41: qid = max_qid + 1                                              *)
StartQid(file) == MaxQid(file) + 1

(* drop_duplicates(subset="question_id", keep="first")                     *)
DropDuplicates(frame) ==
    IF Cardinality(Ids(frame)) = Len(frame) THEN frame
    ELSE LET keep == {i \in DOMAIN frame :
                        \A j \in 1..(i - 1) :
                            frame[j].question_id # frame[i].question_id}
             pos(i) == Cardinality({j \in keep : j <= i})
             at(k) == CHOOSE i \in keep : pos(i) = k
         IN  [k \in 1..Cardinality(keep) |-> frame[at(k)]]

(* A variant that sorts with ascending=False.                              *)
SortValuesDescending(frame) ==
    SortSeq(frame, LAMBDA a, b : a.question_id > b.question_id)

(* sort_values(by="question_id")                                           *)
SortValues(frame) ==
    SortSeq(frame, LAMBDA a, b : a.question_id < b.question_id)

(* Lines 163-165: concat, drop_duplicates, sort_values.                    *)
Merge(frame, batch) == SortValues(DropDuplicates(frame \o batch))

----------------------------------------------------------------------------
(* Extraction (lines 68-160).                                              *)
Is404(doc) == doc = "404"

HasImageLink(doc) == doc = "qimg"

QuestionText(doc) == IF doc \in {"q", "qimg", "qna"} THEN "text" ELSE ""

(* Lines 121-131: the text of the answer span.                             *)
AnswerText(doc) ==
    IF doc = "qna" THEN "NA" ELSE IF doc \in {"q", "qimg"} THEN "text" ELSE ""

(* A variant that appends after qid has been incremented.                  *)
RecordShifted(id, doc, has_image) ==
    [question_id |-> id + 1, question |-> QuestionText(doc),
     answer |-> AnswerText(doc), image |-> has_image]

(* Lines 147-158: the record appended to new_data.                         *)
Record(id, doc, has_image) ==
    [question_id |-> id, question |-> QuestionText(doc),
     answer |-> AnswerText(doc), image |-> has_image]

----------------------------------------------------------------------------
(* The state before the script's first statement.                          *)
Fresh ==
    /\ df = <<>>
    /\ max_qid = 0
    /\ new_data = <<>>
    /\ missing_streak = 0
    /\ qid = 0
    /\ html_content = "none"
    /\ r = NoResponse
    /\ skipped = {}

EmptyCache == [i \in {} |-> "404"]

NoFaults(last) ==
    [last |-> last, gaps |-> {}, imgs |-> {}, nas |-> {}, broken |-> {},
     flaky |-> {}, flaky_img |-> {}, killAt |-> {}, killWrite |-> FALSE,
     down |-> FALSE, cached |-> EmptyCache]

(* One incident at one id of the window.                                   *)
Incidents(last) ==
    {NoFaults(last)}
    \cup {[NoFaults(last) EXCEPT !.gaps = {p}] : p \in Window}
    \cup {[NoFaults(last) EXCEPT !.gaps = {p, p + 1}] : p \in Window}
    \cup {[NoFaults(last) EXCEPT !.broken = {p}] : p \in Window}
    \cup {[NoFaults(last) EXCEPT !.imgs = {p}, !.flaky_img = {p}] : p \in Window}
    \cup {[NoFaults(last) EXCEPT !.flaky = {p}] : p \in Window \cup {last}}
    \cup {[NoFaults(last) EXCEPT !.nas = {p}] : p \in Window}
    \cup {[NoFaults(last) EXCEPT !.killAt = {p}] : p \in Window}
    \cup {[NoFaults(last) EXCEPT !.cached = (p :> d)] :
              p \in Window, d \in {"404", "q"}}

OldRow(id) ==
    [question_id |-> id, question |-> "text", answer |-> "text", image |-> 0]

(* A row whose answer is the text NA, as Record and to_csv write it.       *)
NaRow(id) == [OldRow(id) EXCEPT !.answer = "NA"]

WarmFiles ==
    {Table(<<OldRow(Lo - 1)>>),
     Table(<<OldRow(Lo - 4), OldRow(Lo - 2), OldRow(Lo - 1)>>),
     Table(<<OldRow(BUFFER_ID - 1), OldRow(BUFFER_ID)>>)}

(* Scenarios of their own: an existing row with the answer NA, and a       *)
(* process that may be killed while to_csv writes.                         *)
SpecialScenarios ==
    {[file |-> Table(<<NaRow(Lo - 2), OldRow(Lo - 1)>>),
      env |-> NoFaults(Hi + 1)],
     [file |-> Table(<<OldRow(Lo - 2), OldRow(Lo - 1)>>),
      env |-> [NoFaults(Hi + 1) EXCEPT !.killWrite = TRUE]]}

(* A file whose rows are not in the order of their ids, with a site that   *)
(* has nothing new and with one that has.                                  *)
UnsortedScenarios ==
    {[file |-> Table(<<OldRow(Lo - 1), OldRow(Lo - 3)>>), env |-> NoFaults(l)] :
        l \in {Lo - 1, Hi + 1}}

(* Every request fails and no document is cached.                          *)
DownScenarios ==
    {[file |-> f, env |-> [NoFaults(Hi + 1) EXCEPT !.down = TRUE]] :
        f \in WarmFiles}

ColdFiles == {AbsentFile, EmptyFile, CorruptFile, Table(<<>>)}

Scenarios ==
    {[file |-> f, env |-> e] :
        f \in WarmFiles, e \in Incidents(Hi + 1) \cup Incidents(Lo - 1)}
    \cup {[file |-> AbsentFile, env |-> NoFaults(LastFound)]}
    \cup {[file |-> f, env |-> NoFaults(0)] : f \in ColdFiles}
    \cup SpecialScenarios
    \cup UnsortedScenarios
    \cup DownScenarios

Init ==
    \E sc \in Scenarios :
        /\ env = sc.env
        /\ csv = sc.file
        /\ html = sc.env.cached
        /\ images = {}
        /\ pc = "load"
        /\ run = 1
        /\ net_requests = 0
        /\ prev_skipped = {}
        /\ prev_end = "none"
        /\ Fresh

----------------------------------------------------------------------------
(* Lines 21-41.                                                            *)
Load ==
    /\ pc = "load"
    /\ df' = LoadedFrame(csv)
    /\ max_qid' = MaxQid(csv)
    /\ qid' = StartQid(csv)
    /\ new_data' = <<>>
    /\ missing_streak' = 0
    /\ pc' = "loop"
    /\ UNCHANGED <<env, csv, html, images, run, html_content, r,
                   net_requests, skipped, prev_skipped, prev_end>>

(* A variant that sets has_image before the download is tried.             *)
ImageStepFlagFirst(doc, has_image) ==
    IF ~HasImageLink(doc) THEN has_image = 0 /\ images' = images
    ELSE IF qid \in images THEN has_image = 1 /\ images' = images
    ELSE \E ok \in ImageGetOutcomes(env, qid) :
            /\ has_image = 1
            /\ images' = IF ok THEN images \cup {qid} ELSE images

(* Lines 89-114: the value of has_image and the image files afterwards.    *)
ImageStep(doc, has_image) ==
    IF ~HasImageLink(doc) THEN has_image = 0 /\ images' = images
    ELSE IF qid \in images THEN has_image = 1 /\ images' = images
    ELSE \E ok \in ImageGetOutcomes(env, qid) :
            IF ok THEN has_image = 1 /\ images' = images \cup {qid}
            ELSE has_image = 0 /\ images' = images

(* A variant of the streak update that counts every missing id twice.      *)
NextStreakDouble(doc, id, streak) ==
    IF Is404(doc)
    THEN IF id > BUFFER_ID THEN streak + 2 ELSE streak
    ELSE 0

(* Variants of the streak update: without the buffer test of line 72, and  *)
(* without the reset of line 83.                                           *)
NextStreakNoBuffer(doc, id, streak) ==
    IF Is404(doc) THEN streak + 1 ELSE 0

NextStreakNoReset(doc, id, streak) ==
    IF Is404(doc)
    THEN IF id > BUFFER_ID THEN streak + 1 ELSE streak
    ELSE streak

(* Lines 70-83: missing_streak after the document of id was parsed.        *)
NextStreak(doc, id, streak) ==
    IF Is404(doc)
    THEN IF id > BUFFER_ID THEN streak + 1 ELSE streak
    ELSE 0

(* A variant of the break test that needs a streak one longer.             *)
HaltsLate(doc, id, streak) ==
    Is404(doc) /\ id > BUFFER_ID /\ NextStreak(doc, id, streak) > MAX_MISSING

(* A variant of the break test that lacks the streak test of line 74.      *)
HaltsOnFirstMiss(doc, id, streak) ==
    Is404(doc) /\ id > BUFFER_ID

(* Lines 71-79: the iteration reaches the break.                           *)
Halts(doc, id, streak) ==
    Is404(doc) /\ id > BUFFER_ID /\ NextStreak(doc, id, streak) >= MAX_MISSING

(* Lines 68-160: the iteration from the parse of html_content on.          *)
Dispatch(doc) ==
    /\ missing_streak' = NextStreak(doc, qid, missing_streak)
    /\ IF Halts(doc, qid, missing_streak)
       THEN pc' = "persist" /\ qid' = qid
       ELSE pc' = "loop" /\ qid' = qid + 1
    /\ IF Is404(doc)
       THEN UNCHANGED <<new_data, images>>
       ELSE \E has_image \in {0, 1} :
                /\ ImageStep(doc, has_image)
                /\ new_data' = Append(new_data, Record(qid, doc, has_image))

(* A variant that never finds the cached file.                             *)
CacheHitNever(files, id) == FALSE

(* Line 52: os.path.exists(html_path)                                      *)
CacheHit(files, id) == id \in DOMAIN files

(* Lines 52-54: the cached document is read.                               *)
ProbeCached ==
    /\ pc = "loop"
    /\ CacheHit(html, qid)
    /\ html_content' = html[qid]
    /\ Dispatch(html[qid])
    /\ UNCHANGED <<env, csv, html, run, df, max_qid, r, net_requests,
                   skipped, prev_skipped, prev_end>>

(* A variant that parses the fetched text without writing the cache file.  *)
ProbeFetchedNoWrite ==
    /\ pc = "loop"
    /\ ~CacheHit(html, qid)
    /\ \E resp \in GetOutcomes(env, qid) :
        /\ resp # NoResponse
        /\ r' = resp
        /\ html_content' = resp.text
        /\ Dispatch(resp.text)
    /\ net_requests' = net_requests + 1
    /\ UNCHANGED <<env, csv, html, run, df, max_qid, skipped, prev_skipped,
                   prev_end>>

(* Lines 56-62: requests.get returns; its text is cached and parsed.       *)
ProbeFetched ==
    /\ pc = "loop"
    /\ ~CacheHit(html, qid)
    /\ \E resp \in GetOutcomes(env, qid) :
        /\ resp # NoResponse
        /\ r' = resp
        /\ html_content' = resp.text
        /\ html' = (qid :> resp.text) @@ html
        /\ Dispatch(resp.text)
    /\ net_requests' = net_requests + 1
    /\ UNCHANGED <<env, csv, run, df, max_qid, skipped, prev_skipped,
                   prev_end>>

(* The loop of a site that is down has no end; the model follows it for    *)
(* MaxDownProbes ids.                                                      *)
WithinDownProbes == env.down => qid - max_qid <= MaxDownProbes

(* Variants of the except branch: one that counts the id as missing, and   *)
(* one that continues without incrementing qid.                            *)
ProbeFailedCountsMissing ==
    /\ pc = "loop"
    /\ WithinDownProbes
    /\ ~CacheHit(html, qid)
    /\ NoResponse \in GetOutcomes(env, qid)
    /\ r' = NoResponse
    /\ qid' = qid + 1
    /\ net_requests' = net_requests + 1
    /\ skipped' = skipped \cup {qid}
    /\ missing_streak' = Min(missing_streak + 1, MAX_MISSING - 1)
    /\ UNCHANGED <<env, csv, html, images, pc, run, df, max_qid, new_data,
                   html_content, prev_skipped, prev_end>>

ProbeFailedNoStep ==
    /\ pc = "loop"
    /\ ~CacheHit(html, qid)
    /\ NoResponse \in GetOutcomes(env, qid)
    /\ r' = NoResponse
    /\ net_requests' = Min(net_requests + 1, 1)
    /\ skipped' = skipped \cup {qid}
    /\ UNCHANGED <<env, csv, html, images, pc, run, df, max_qid, new_data,
                   missing_streak, qid, html_content, prev_skipped, prev_end>>

(* Lines 56-66: requests.get raises; the id is skipped.                    *)
ProbeFailed ==
    /\ pc = "loop"
    /\ WithinDownProbes
    /\ ~CacheHit(html, qid)
    /\ NoResponse \in GetOutcomes(env, qid)
    /\ r' = NoResponse
    /\ qid' = qid + 1
    /\ net_requests' = net_requests + 1
    /\ skipped' = skipped \cup {qid}
    /\ UNCHANGED <<env, csv, html, images, pc, run, df, max_qid, new_data,
                   missing_streak, html_content, prev_skipped, prev_end>>

(* The file a process killed inside to_csv may leave: nothing, the rows    *)
(* but the last, or text cut inside a quoted field.                        *)
PartialWrites(frame) ==
    {EmptyFile, CorruptFile,
     Table(ToCsv(SubSeq(frame, 1, Len(frame) - 1)))}

(* A variant of the persist without the test of line 162.                  *)
PersistAlways ==
    /\ pc = "persist"
    /\ df' = Merge(df, new_data)
    /\ csv' = EmptyFile
    /\ pc' = "writing"
    /\ UNCHANGED <<env, html, images, run, max_qid, new_data, missing_streak,
                   qid, html_content, r, net_requests, skipped, prev_skipped,
                   prev_end>>

(* Lines 162-166, up to to_csv opening CSV_PATH for writing: the frame is  *)
(* merged and the file truncated.  Line 169 when there is nothing new.     *)
Persist ==
    /\ pc = "persist"
    /\ IF new_data # <<>>
       THEN /\ df' = Merge(df, new_data)
            /\ csv' = EmptyFile
            /\ pc' = "writing"
       ELSE /\ UNCHANGED <<df, csv>>
            /\ pc' = "done"
    /\ UNCHANGED <<env, html, images, run, max_qid, new_data, missing_streak,
                   qid, html_content, r, net_requests, skipped, prev_skipped,
                   prev_end>>

(* Lines 166-167: to_csv writes the rows and closes the file.              *)
WriteRows ==
    /\ pc = "writing"
    /\ csv' = Table(ToCsv(df))
    /\ pc' = "done"
    /\ UNCHANGED <<env, html, images, run, df, max_qid, new_data,
                   missing_streak, qid, html_content, r, net_requests,
                   skipped, prev_skipped, prev_end>>

(* The process is killed between two iterations of the loop.               *)
Kill ==
    /\ pc = "loop"
    /\ qid \in env.killAt
    /\ pc' = "killed"
    /\ UNCHANGED <<env, csv, html, images, run, df, max_qid, new_data,
                   missing_streak, qid, html_content, r, net_requests,
                   skipped, prev_skipped, prev_end>>

(* The process is killed while to_csv writes.                              *)
KillWriting ==
    /\ pc = "writing"
    /\ env.killWrite
    /\ csv' \in PartialWrites(df)
    /\ pc' = "killed"
    /\ UNCHANGED <<env, html, images, run, df, max_qid, new_data,
                   missing_streak, qid, html_content, r, net_requests,
                   skipped, prev_skipped, prev_end>>

(* The script is started again.                                            *)
Restart ==
    /\ pc \in {"done", "killed"}
    /\ run < MaxRuns
    /\ run' = run + 1
    /\ pc' = "load"
    /\ prev_skipped' = skipped
    /\ prev_end' = pc
    /\ df' = <<>>
    /\ max_qid' = 0
    /\ new_data' = <<>>
    /\ missing_streak' = 0
    /\ qid' = 0
    /\ html_content' = "none"
    /\ r' = NoResponse
    /\ skipped' = {}
    /\ UNCHANGED <<env, csv, html, images, net_requests>>

Next ==
    \/ Load
    \/ ProbeCached
    \/ ProbeFetched
    \/ ProbeFailed
    \/ Persist
    \/ WriteRows
    \/ Kill
    \/ KillWriting
    \/ Restart

Spec == Init /\ [][Next]_vars

(* The process, while it lives, goes on: the load, every iteration (each   *)
(* request returns or raises within REQUEST_TIMEOUT) and the final persist *)
(* are taken.  A kill and a new start are the environment's choice.        *)
Iteration == ProbeCached \/ ProbeFetched \/ ProbeFailed

(* The executions followed to their end: those that start from a file     *)
(* that loads, with the process killed only between iterations, so that   *)
(* no execution starts over from id 1.                                     *)
LiveScenarios ==
    {sc \in Scenarios : LoadSucceeds(sc.file) /\ ~sc.env.killWrite}

LiveInit ==
    \E sc \in LiveScenarios :
        /\ env = sc.env
        /\ csv = sc.file
        /\ html = sc.env.cached
        /\ images = {}
        /\ pc = "load"
        /\ run = 1
        /\ net_requests = 0
        /\ prev_skipped = {}
        /\ prev_end = "none"
        /\ Fresh

LiveNext ==
    \/ Load
    \/ Iteration
    \/ Persist
    \/ WriteRows
    \/ Kill
    \/ Restart

LiveSpec ==
    /\ LiveInit
    /\ [][LiveNext]_vars
    /\ WF_vars(Load)
    /\ WF_vars(Iteration)
    /\ WF_vars(Persist)
    /\ WF_vars(WriteRows)

----------------------------------------------------------------------------
(* Steps of the loop, as the properties below name them.                   *)

(* This step is an iteration that parsed document d for qid.               *)
Resolves(d) ==
    /\ pc = "loop"
    /\ pc' \in {"loop", "persist"}
    /\ qid \in DOMAIN html'
    /\ html'[qid] = d

(* This step is an iteration that parsed a question page of some kind.     *)
ResolvesFound == \E d \in Documents \ {"404"} : Resolves(d)

(* The ids this execution has resolved to a not-found page, up to id n.    *)
Missed(n) ==
    {i \in (max_qid + 1)..n : i \in DOMAIN html /\ html[i] = "404"}

(* The ids this execution has resolved to anything else, up to id n.       *)
Harvested(n) ==
    {i \in (max_qid + 1)..n : i \in DOMAIN html /\ html[i] # "404"}

FileIds == Ids(csv.rows)

----------------------------------------------------------------------------
(* C1: from an empty dataset, against a site that has exactly the ids      *)
(* 1..LastFound and answers every request, the sweep never probes an id    *)
(* above LastFound + MAX_MISSING, leaves the loop while probing exactly    *)
(* that id, and the file written holds exactly the records 1..LastFound.   *)
C1_TerminationAtFrontier ==
    (env = NoFaults(LastFound) /\ run = 1 /\ max_qid = 0) =>
        /\ qid <= LastFound + MAX_MISSING
        /\ (pc = "loop" =>
                /\ Len(new_data) = Min(qid - 1, LastFound)
                /\ (new_data # <<>> =>
                        new_data[Len(new_data)].question_id = Len(new_data)))
        /\ (pc \in {"persist", "writing", "done"} =>
                qid = LastFound + MAX_MISSING)
        /\ (pc = "done" =>
                /\ csv.kind = "table"
                /\ Len(csv.rows) = LastFound
                /\ FileIds = 1..LastFound)

C1_Witness ==
    /\ env = NoFaults(LastFound)
    /\ run = 1
    /\ pc = "done"
    /\ qid = LastFound + MAX_MISSING
    /\ Len(new_data) = LastFound

(* C2: an iteration leaves the loop exactly when the streak it has just    *)
(* counted reaches MAX_MISSING at an id above BUFFER_ID; a step from the   *)
(* loop otherwise stays in the loop (or is the process being killed).      *)
C2_HaltOnlyOnStreak ==
    [][pc = "loop" =>
          /\ pc' \in {"loop", "persist", "killed"}
          /\ (pc' = "persist") <=>
                (missing_streak' >= MAX_MISSING /\ qid > BUFFER_ID
                    /\ pc' # "killed")
          /\ (pc' = "persist" => missing_streak = MAX_MISSING - 1)]_vars

C2_Witness ==
    /\ pc = "persist"
    /\ missing_streak = MAX_MISSING
    /\ skipped # {}
    /\ new_data # <<>>

(* C3: a not-found page at an id at or below BUFFER_ID leaves the streak   *)
(* and the batch as they are and the loop running at the next id; and the  *)
(* file at the end of an execution holds, of the ids the execution         *)
(* probed, exactly those that resolved to something else than not-found.   *)
C3_GapBelowBuffer ==
    /\ [][(Resolves("404") /\ qid <= BUFFER_ID) =>
             /\ missing_streak' = missing_streak
             /\ new_data' = new_data
             /\ pc' = "loop"
             /\ qid' = qid + 1]_vars
    /\ [](pc = "done" =>
            FileIds \cap ((max_qid + 1)..qid) = Harvested(qid))

C3_Witness ==
    /\ pc = "done"
    /\ \E g \in Window :
        /\ g + 1 <= BUFFER_ID
        /\ {g, g + 1} \subseteq Missed(qid)
        /\ {g - 1, g + 2} \subseteq FileIds \cap Harvested(qid)

(* C4: an iteration that parses a question page sets the streak to 0 and   *)
(* appends one record, with the probed id, to the batch; so when the loop  *)
(* has been left, the ids after the last harvested one (and above          *)
(* BUFFER_ID) hold exactly MAX_MISSING not-found pages.                    *)
C4_FoundResetsStreak ==
    /\ [][ResolvesFound =>
             /\ missing_streak' = 0
             /\ Len(new_data') = Len(new_data) + 1
             /\ SubSeq(new_data', 1, Len(new_data)) = new_data
             /\ new_data'[Len(new_data')].question_id = qid
             /\ pc' = "loop"]_vars
    /\ [](pc = "persist" =>
            LET from == SetMax(Harvested(qid) \cup {max_qid, BUFFER_ID})
            IN  Cardinality({i \in Missed(qid) : i > from}) = MAX_MISSING)

C4_Witness ==
    /\ pc = "loop"
    /\ missing_streak = 0
    /\ new_data # <<>>
    /\ qid - 2 \in Missed(qid)
    /\ qid - 2 > BUFFER_ID
    /\ new_data[Len(new_data)].question_id = qid - 1
(* C5: when the file loads with greatest id K, the execution starts its    *)
(* sweep at K + 1, whatever ids below K the file lacks.                    *)
C5_CursorAfterMax ==
    [][(pc = "load" /\ csv.kind = "table" /\ csv.rows # <<>>) =>
          /\ pc' = "loop"
          /\ qid' - 1 \in FileIds
          /\ \A i \in FileIds : i < qid'
          /\ max_qid' = qid' - 1]_vars

C5_Witness ==
    /\ pc = "loop"
    /\ csv.kind = "table"
    /\ qid = max_qid + 1
    /\ max_qid \in FileIds
    /\ \E g \in 1..max_qid :
            g \notin FileIds /\ g - 1 \in FileIds /\ g + 1 \in FileIds

(* C6: when the file is absent, empty or unreadable (or has no rows), the  *)
(* load does not stop the execution: max_qid is 0, the frame is empty and  *)
(* the sweep starts at id 1.                                               *)
C6_ColdStart ==
    [][(pc = "load" /\ (csv.kind \in {"absent", "empty", "corrupt"}
                          \/ csv.rows = <<>>)) =>
          /\ pc' = "loop"
          /\ max_qid' = 0
          /\ df' = <<>>
          /\ qid' = 1]_vars

C6_Witness ==
    /\ pc = "loop"
    /\ csv.kind = "corrupt"
    /\ qid = 2
    /\ 1 \in DOMAIN html

(* C7: an iteration at an id whose document is cached parses the cached    *)
(* document and sends no request; the cache is left as it is.              *)
C7_CacheBypass ==
    [][(pc = "loop" /\ qid \in DOMAIN html /\ pc' # "killed") =>
          /\ net_requests' = net_requests
          /\ html_content' = html[qid]
          /\ html' = html
          /\ r' = r]_vars

C7_Witness ==
    /\ pc = "loop"
    /\ qid - 1 \in DOMAIN env.cached
    /\ html_content = env.cached[qid - 1]
    /\ Response(env, qid - 1).text # html_content
    /\ net_requests = qid - 2 - max_qid

(* C8 as the specification states it: a request that ends in an exception  *)
(* or in a response whose status is not a success writes no cache file,    *)
(* and the id is skipped, counted neither as found nor as missing.         *)
C8_Claim ==
    [][(pc = "loop" /\ net_requests' = net_requests + 1
            /\ r'.status # 200) =>
          /\ qid \notin DOMAIN html'
          /\ skipped' = skipped \cup {qid}
          /\ new_data' = new_data
          /\ missing_streak' = missing_streak]_vars

(* C9 as the specification states it: every id the previous execution      *)
(* skipped on a failed request lies in the range this execution sweeps.    *)
C9_Claim ==
    (run > 1 /\ pc # "load") => \A i \in prev_skipped : i > max_qid

(* C10 as the specification states it: with a persist after every          *)
(* CheckpointInterval harvested records, a killed process leaves a file    *)
(* that holds every record harvested up to the last such checkpoint.       *)
C10_Claim ==
    pc = "killed" =>
        \A k \in 1..(Len(new_data) - (Len(new_data) % CheckpointInterval)) :
            new_data[k].question_id \in FileIds
(* The rows are in non-decreasing order of question_id.                    *)
Sorted(rows) ==
    \A i \in 1..(Len(rows) - 1) :
        rows[i].question_id <= rows[i + 1].question_id

(* The rows of a file as the load of lines 21-32 takes them.               *)
LoadedRows(file) == IF LoadSucceeds(file) THEN file.rows ELSE <<>>

(* C11 as the specification states it: whenever the persist changes the    *)
(* file, the file then holds the complete merged dataset (otherwise it     *)
(* still holds the complete prior one).                                    *)
C11_Claim ==
    [][(pc \in {"persist", "writing"}) =>
          (csv' = csv \/ csv' = Table(ToCsv(df')))]_vars

(* C12 as the specification states it: the dataset a persist merges for    *)
(* writing has exactly the ids of the loaded file and of the batch, one    *)
(* row per id, and every row of the loaded file (the first of its id) is   *)
(* in it with its fields as they were.                                     *)
C12_Claim ==
    [][(pc = "persist" /\ pc' = "writing") =>
          LET old == LoadedRows(csv)
              out == ToCsv(df')
          IN  /\ Ids(out) = Ids(old) \cup Ids(new_data)
              /\ Len(out) = Cardinality(Ids(out))
              /\ \A i \in DOMAIN old :
                    (\A j \in 1..(i - 1) :
                        old[j].question_id # old[i].question_id)
                    => \E k \in DOMAIN out : out[k] = old[i]]_vars

(* C13: the file a completed persist leaves has its rows in                *)
(* non-decreasing order of question_id, in every execution.                *)
C13_SortedAfterPersist ==
    [][(pc = "writing" /\ pc' = "done") =>
          (csv'.kind = "table" /\ Sorted(csv'.rows))]_vars

C13_Witness ==
    /\ run = 2
    /\ prev_end = "killed"
    /\ pc = "done"
    /\ new_data # <<>>
    /\ Len(csv.rows) > Len(new_data)

(* C14 as the specification states it: an execution that follows a         *)
(* completed one, against the same site, harvests no record.               *)
C14_Claim ==
    (run > 1 /\ prev_end = "done") => new_data = <<>>

(* C14, amended: an execution that follows a completed one, against the    *)
(* same site, harvests no record and leaves the file as it is, provided    *)
(* every id the earlier execution skipped on a failed request lies at or   *)
(* below the greatest id of the file.                                      *)
C14_IdempotentWithoutRetry ==
    /\ []((run > 1 /\ prev_end = "done" /\ pc # "load"
            /\ \A i \in prev_skipped : i <= max_qid)
          => (new_data = <<>> /\ pc # "writing"))
    /\ [][(run > 1 /\ prev_end = "done" /\ pc \in {"loop", "persist"}
            /\ \A i \in prev_skipped : i <= max_qid)
          => csv' = csv]_vars

C14_Witness ==
    /\ run = 2
    /\ prev_end = "done"
    /\ pc = "done"
    /\ new_data = <<>>
    /\ prev_skipped # {}
    /\ \A i \in prev_skipped : i <= max_qid
    /\ qid = max_qid + MAX_MISSING

(* C15: an iteration whose image download fails still appends the record   *)
(* of the probed id, with image 0, and goes on to the next id.             *)
C15_MediaFailureKeepsRecord ==
    [][(Resolves("qimg") /\ qid \notin images') =>
          /\ Len(new_data') = Len(new_data) + 1
          /\ new_data'[Len(new_data')].question_id = qid
          /\ new_data'[Len(new_data')].image = 0
          /\ new_data'[Len(new_data')].question = "text"
          /\ qid' = qid + 1
          /\ pc' = "loop"]_vars

C15_Witness ==
    /\ pc = "loop"
    /\ html_content = "qimg"
    /\ qid - 1 \notin images
    /\ new_data # <<>>
    /\ new_data[Len(new_data)] = Record(qid - 1, "qimg", 0)

(* C16: an iteration whose request raises changes only qid (and the        *)
(* account of requests): the streak, the batch, the cache and the file     *)
(* stay as they are and the loop goes on at the next id.                   *)
C16_FetchErrorFrame ==
    [][(pc = "loop" /\ net_requests' # net_requests /\ r' = NoResponse) =>
          /\ missing_streak' = missing_streak
          /\ new_data' = new_data
          /\ qid' = qid + 1
          /\ pc' = "loop"
          /\ html' = html
          /\ csv' = csv]_vars

C16_Witness ==
    /\ pc = "loop"
    /\ missing_streak = 2
    /\ qid - 2 \in skipped
    /\ {qid - 3, qid - 1} \subseteq Missed(qid)
    /\ qid - 3 > BUFFER_ID

(* C17: a request that returns has its text in the cache file of the id    *)
(* when the iteration ends; a kill or a new execution leaves the cache as  *)
(* it is; and a later execution parses a cached id from the file, sending  *)
(* no request.                                                             *)
C17_WriteThroughResume ==
    /\ [][(pc = "loop" /\ net_requests' # net_requests /\ r' # NoResponse) =>
             /\ qid \in DOMAIN html'
             /\ html'[qid] = r'.text
             /\ html_content' = r'.text]_vars
    /\ [][(pc' \in {"killed", "load"}) => html' = html]_vars
    /\ [][(run > 1 /\ pc = "loop" /\ qid \in DOMAIN html /\ pc' # "killed") =>
             /\ net_requests' = net_requests
             /\ html_content' = html[qid]]_vars

C17_Witness ==
    /\ run = 2
    /\ prev_end = "killed"
    /\ pc = "loop"
    /\ r = NoResponse
    /\ skipped = {}
    /\ new_data # <<>>
    /\ new_data[Len(new_data)].question_id = qid - 1
    /\ qid - 1 \notin FileIds

(* C18: the sweep starts at max_qid + 1, and every iteration after which   *)
(* the loop goes on moves qid up by exactly 1; the iteration that breaks,  *)
(* a kill and the persist leave qid where it is.                           *)
C18_OneIdAtATime ==
    [][/\ (pc = "load" => qid' = max_qid' + 1)
       /\ ((pc = "loop" /\ pc' = "loop") => qid' = qid + 1)
       /\ ((pc = "loop" /\ pc' # "loop") => qid' = qid)
       /\ (pc \in {"persist", "writing"} => qid' = qid)]_vars

C18_Witness ==
    /\ pc = "loop"
    /\ skipped # {}
    /\ new_data # <<>>
    /\ missing_streak > 0
    /\ net_requests = qid - max_qid - 1

(* C19: a step leaves every cache file as it is; the only change to the    *)
(* cache is a new file for the probed id, which had none.                  *)
C19_CacheImmutable ==
    [][\/ html' = html
       \/ /\ qid \notin DOMAIN html
          /\ \E d \in Documents : html' = (qid :> d) @@ html]_vars

C19_Witness ==
    /\ run = 2
    /\ pc = "done"
    /\ \E p \in DOMAIN env.cached :
        /\ p < qid
        /\ p \notin prev_skipped
        /\ html[p] = env.cached[p]
        /\ Response(env, p).text # html[p]
        /\ p + 1 \in DOMAIN html

(* C20: whenever an iteration is about to start, the streak is below       *)
(* MAX_MISSING, and it is 0 as long as qid is at or below BUFFER_ID.       *)
C20_StreakBounds ==
    pc = "loop" =>
        /\ missing_streak < MAX_MISSING
        /\ missing_streak >= 0
        /\ (qid <= BUFFER_ID => missing_streak = 0)

C20_Witness ==
    /\ pc = "loop"
    /\ missing_streak = MAX_MISSING - 1
    /\ new_data # <<>>
(* The greatest id the run has harvested, or max_qid when it has none.     *)
LastHarvested ==
    IF new_data = <<>> THEN max_qid
    ELSE new_data[Len(new_data)].question_id

(* C21: every record the run appends has an id above every id of the       *)
(* loaded frame, so the merge drops no harvested record and no id is in    *)
(* both the loaded frame and the batch.                                    *)
C21_HarvestAboveLoaded ==
    /\ [](pc \in {"loop", "persist"} => \A i \in Ids(df) : i <= max_qid)
    /\ [][(pc = "loop" /\ new_data' # new_data) =>
             /\ new_data' = Append(new_data, new_data'[Len(new_data')])
             /\ new_data'[Len(new_data')].question_id = qid
             /\ qid > LastHarvested]_vars
    /\ [][(pc = "persist" /\ pc' = "writing") =>
             /\ Ids(df) \cap Ids(new_data) = {}
             /\ Ids(new_data) \subseteq Ids(df')
             /\ Len(df') = Len(DropDuplicates(df)) + Len(new_data)]_vars

C21_Witness ==
    /\ pc = "done"
    /\ new_data # <<>>
    /\ max_qid = Lo - 1
    /\ Len(csv.rows) = Len(new_data) + 2
    /\ new_data[1].question_id = Lo

(* C22: a step changes the dataset file only in a run that has harvested   *)
(* a record, and the batch grows only in an iteration whose document is    *)
(* not the 404 page; a run with no such document leaves the file as it     *)
(* was, whatever it held.                                                  *)
C22_NoHarvestNoWrite ==
    /\ [][csv' # csv => new_data # <<>>]_vars
    /\ [][(pc = "loop" /\ ~ResolvesFound) => new_data' = new_data]_vars
    /\ [][(pc = "persist" /\ new_data = <<>>) => pc' = "done"]_vars

C22_Witness ==
    /\ pc = "done"
    /\ new_data = <<>>
    /\ missing_streak = MAX_MISSING
    /\ csv.kind = "table"
    /\ ~Sorted(csv.rows)

(* C23 as the specification states it, for the count: the loop breaks at   *)
(* the MAX_MISSING-th id above F, BUFFER_ID and the start, F being the      *)
(* greatest id of the run that was harvested or skipped on a failed        *)
(* request.                                                                *)
C23_Claim ==
    [][(pc = "loop" /\ pc' = "persist") =>
          qid = SetMax({LastHarvested, BUFFER_ID} \cup skipped) + MAX_MISSING]_vars

(* C23, amended: with a site that answers, the loop comes to its break     *)
(* (or the process is killed) and the final persist is then done; the      *)
(* break is at the MAX_MISSING-th 404 id above the greatest harvested id,  *)
(* BUFFER_ID and the start, ids skipped on a failed request in between     *)
(* not counted; and while every request fails and nothing is cached the    *)
(* loop does not break.                                                    *)
C23_HaltsAfterStreak ==
    /\ (pc = "loop" /\ ~env.down) ~> (pc \in {"persist", "killed"})
    /\ (pc = "persist") ~> (pc \in {"done", "killed"})
    /\ [][(pc = "loop" /\ pc' = "persist") =>
             LET M == SetMax({LastHarvested, BUFFER_ID})
             IN  /\ missing_streak' = MAX_MISSING
                 /\ qid = M + MAX_MISSING + Cardinality({i \in skipped : i > M})
                 /\ Is404(html_content')]_vars
    /\ []((env.down /\ pc # "load") =>
             (pc = "loop" /\ new_data = <<>> /\ missing_streak = 0))

C23_Witness ==
    /\ pc = "done"
    /\ missing_streak = MAX_MISSING
    /\ \E i \in skipped : i > LastHarvested + 1 /\ i > BUFFER_ID + 1

(* More requests have failed in a row, above BUFFER_ID, than MAX_MISSING,  *)
(* and the loop goes on.                                                   *)
C23_DownWitness ==
    /\ env.down
    /\ pc = "loop"
    /\ qid - max_qid > MAX_MISSING + 1
    /\ max_qid >= BUFFER_ID

====
